---- MODULE Spec2Model ----
(***************************************************************************)
(* Model of desk_viewer.py: the DeskApp item store (load / save / poll),   *)
(* the add-item form, the canvas click and the assistant bridge.           *)
(*                                                                         *)
(* Text is a sequence of one-character strings.  A float is a record       *)
(* [k, v]: k = "fin" with v the value in thousandths, or k = "nan".        *)
(* A JSON value is a record [t, s, n]: t is its kind, s its text (kind     *)
(* "str"), n its number (kind "num").  A JSON document is a record         *)
(* [k, elems]: what the file's bytes are (an array, an object, a scalar,   *)
(* text that is no JSON, or a cut-off prefix of an array dump).            *)
(***************************************************************************)
EXTENDS Integers, Sequences, FiniteSets, TLC

VARIABLES pc, timer, client, path_var, fs, now, items, last_loaded_mtime,
          status_var, canvas, time_var, name_var, x_var, y_var, color_var,
          user_question, response_box, ev, saved

vars == <<pc, timer, client, path_var, fs, now, items, last_loaded_mtime,
          status_var, canvas, time_var, name_var, x_var, y_var, color_var,
          user_question, response_box, ev, saved>>

(***************************************************************************)
(* Bounds of the model.                                                    *)
(***************************************************************************)
MaxItems == 2
MaxClock == 2
MaxChat == 1
MaxMsgLen == 3

(***************************************************************************)
(* Program constants.                                                      *)
(***************************************************************************)
CANVAS_WIDTH == 900
CANVAS_HEIGHT == 550

DATA_PATH == "data/items.json"
OTHER_PATH == "other.json"
Paths == {DATA_PATH, OTHER_PATH}

(***************************************************************************)
(* Text.                                                                   *)
(***************************************************************************)
T0 == << >>
Digits == <<"0", "1", "2", "3", "4", "5", "6", "7", "8", "9">>
IsDigit(c) == \E i \in 1..10 : Digits[i] = c
DigitVal(c) == (CHOOSE i \in 1..10 : Digits[i] = c) - 1

RECURSIVE LStrip(_)
LStrip(s) == IF s # T0 /\ Head(s) = " " THEN LStrip(Tail(s)) ELSE s

RECURSIVE RStrip(_)
RStrip(s) ==
  IF s # T0 /\ s[Len(s)] = " " THEN RStrip(SubSeq(s, 1, Len(s) - 1)) ELSE s

\* str.strip()
Strip(s) == RStrip(LStrip(s))

(***************************************************************************)
(* Floats, in thousandths.                                                 *)
(***************************************************************************)
F(v) == [k |-> "fin", v |-> v]
NaN == [k |-> "nan", v |-> 0]
\* a <= b on floats: every comparison with nan is false
FLeq(a, b) == a.k = "fin" /\ b.k = "fin" /\ a.v <= b.v
\* a == b on floats: nan is equal to nothing
FEq(a, b) == a.k = "fin" /\ b.k = "fin" /\ a.v = b.v
FMul(a, n) == IF a.k = "fin" THEN F(a.v * n) ELSE NaN

RECURSIVE DigitsVal(_)
\* the number a string of digits writes
DigitsVal(s) ==
  IF s = T0 THEN 0 ELSE 10 * DigitsVal(SubSeq(s, 1, Len(s) - 1)) + DigitVal(s[Len(s)])

AllDigits(s) == \A i \in 1..Len(s) : IsDigit(s[i])
Pow10(n) == IF n = 0 THEN 1 ELSE IF n = 1 THEN 10 ELSE IF n = 2 THEN 100 ELSE 1000

\* The unsigned decimal literal u (digits, at most one dot, at least one digit,
\* at most three digits after the dot), in thousandths.
DotAt(u) == IF \E i \in 1..Len(u) : u[i] = "."
            THEN CHOOSE i \in 1..Len(u) : u[i] = "." ELSE Len(u) + 1
IntPart(u) == SubSeq(u, 1, DotAt(u) - 1)
FracPart(u) == SubSeq(u, DotAt(u) + 1, Len(u))
IsDecimal(u) ==
  /\ AllDigits(IntPart(u)) /\ AllDigits(FracPart(u))
  /\ Len(IntPart(u)) + Len(FracPart(u)) > 0
  /\ Len(FracPart(u)) <= 3
DecimalVal(u) ==
  1000 * DigitsVal(IntPart(u)) + DigitsVal(FracPart(u)) * Pow10(3 - Len(FracPart(u)))

\* float(text): [ok, val]; ok = FALSE is ValueError
ParseFloat(text) ==
  LET s == Strip(text)
      neg == s # T0 /\ Head(s) = "-"
      u == IF neg THEN Tail(s) ELSE s
  IN  IF u = <<"n", "a", "n">> THEN [ok |-> TRUE, val |-> NaN]
      ELSE IF IsDecimal(u)
           THEN [ok |-> TRUE, val |-> F(IF neg THEN 0 - DecimalVal(u) ELSE DecimalVal(u))]
           ELSE [ok |-> FALSE, val |-> F(0)]

RECURSIVE NatText(_)
NatText(n) == IF n < 10 THEN <<Digits[n + 1]>> ELSE NatText(n \div 10) \o <<Digits[(n % 10) + 1]>>

RECURSIVE DropZeros(_)
DropZeros(s) ==
  IF Len(s) > 1 /\ s[Len(s)] = "0" THEN DropZeros(SubSeq(s, 1, Len(s) - 1)) ELSE s

\* str(v) of a non-negative float with at most three decimals: "0.5", "1.0", "0.042"
FloatText(v) ==
  LET fr == v % 1000
      f3 == <<Digits[(fr \div 100) + 1], Digits[((fr \div 10) % 10) + 1], Digits[(fr % 10) + 1]>>
  IN  NatText(v \div 1000) \o <<".">> \o DropZeros(f3)

\* round(p / size, 3), in thousandths (no p / size lies on a tie)
RoundNorm(p, size) == (2000 * p + size) \div (2 * size)

(***************************************************************************)
(* JSON values and DeskItem.                                               *)
(***************************************************************************)
JStr(s) == [t |-> "str", s |-> s, n |-> F(0)]
JNum(f) == [t |-> "num", s |-> T0, n |-> f]
JNull == [t |-> "null", s |-> T0, n |-> F(0)]
\* the key is not in the object
Absent == [t |-> "absent", s |-> T0, n |-> F(0)]

\* Python truthiness of data.get(key)
Falsy(v) ==
  \/ v.t \in {"absent", "null"}
  \/ v.t = "str" /\ v.s = T0
  \/ v.t = "num" /\ v.n = F(0)

\* data.get(key) or ""
OrEmpty(v) == IF Falsy(v) THEN JStr(T0) ELSE v

\* float(data.get(key, 0)): [ok, val]; ok = FALSE is ValueError or TypeError
ToFloat(v) ==
  CASE v.t = "absent" -> [ok |-> TRUE, val |-> F(0)]
    [] v.t = "num" -> [ok |-> TRUE, val |-> v.n]
    [] v.t = "str" -> ParseFloat(v.s)
    [] OTHER -> [ok |-> FALSE, val |-> F(0)]

\* an element of a JSON array: an object (its five keys) or something else
Dict(ts, nm, x, y, col) ==
  [isdict |-> TRUE, f |-> [timestamp |-> ts, name |-> nm, x |-> x, y |-> y, color |-> col]]
NonDict ==
  [isdict |-> FALSE,
   f |-> [timestamp |-> Absent, name |-> Absent, x |-> Absent, y |-> Absent, color |-> Absent]]

\* DeskItem.from_dict raises on e
FromDictRaises(e) == ~e.isdict \/ ~ToFloat(e.f.x).ok \/ ~ToFloat(e.f.y).ok

from_dict(e) ==
  [timestamp |-> OrEmpty(e.f.timestamp),
   name |-> OrEmpty(e.f.name),
   x |-> ToFloat(e.f.x).val,
   y |-> ToFloat(e.f.y).val,
   color |-> OrEmpty(e.f.color)]

\* variant: x and y change places
to_dict_swapped(item) ==
  Dict(item.timestamp, item.name, JNum(item.y), JNum(item.x), item.color)

to_dict(item) ==
  Dict(item.timestamp, item.name, JNum(item.x), JNum(item.y), item.color)

\* dataclass equality of two items
ItemEq(a, b) ==
  /\ a.timestamp = b.timestamp /\ a.name = b.name /\ a.color = b.color
  /\ FEq(a.x, b.x) /\ FEq(a.y, b.y)

ItemsEq(s, r) == Len(s) = Len(r) /\ \A i \in 1..Len(s) : ItemEq(s[i], r[i])

(***************************************************************************)
(* JSON documents and files.                                               *)
(***************************************************************************)
ArrayDoc(elems) == [k |-> "array", elems |-> elems]
\* iterating a JSON object yields its keys, which are strings, not dicts
ObjectDoc(nkeys) == [k |-> "object", elems |-> [i \in 1..nkeys |-> NonDict]]
\* a number, true, false or null: iterating it raises TypeError
ScalarDoc == [k |-> "scalar", elems |-> << >>]
MalformedDoc == [k |-> "malformed", elems |-> << >>]
\* what is on disk when a dump stops after n elements: no closing bracket
TruncatedDoc(elems, n) == [k |-> "truncated", elems |-> SubSeq(elems, 1, n)]

Missing == [exists |-> FALSE, doc |-> MalformedDoc, mtime |-> 0]
File(doc, mtime) == [exists |-> TRUE, doc |-> doc, mtime |-> mtime]

\* json.load(f) raises
JsonLoadRaises(doc) == doc.k \in {"malformed", "truncated"}

\* [DeskItem.from_dict(d) for d in data] raises
ComprehensionRaises(doc) ==
  \/ doc.k = "scalar"
  \/ \E i \in 1..Len(doc.elems) : FromDictRaises(doc.elems[i])

\* variant: the load extends the collection (extend for assignment)
LoadedItemsAppended(doc) == items \o [i \in 1..Len(doc.elems) |-> from_dict(doc.elems[i])]

\* self.items = [DeskItem.from_dict(d) for d in data]
LoadedItems(doc) == [i \in 1..Len(doc.elems) |-> from_dict(doc.elems[i])]

\* variant: the last item is not written
DumpAllButLast(its) == [i \in 1..(Len(its) - 1) |-> to_dict(its[i])]

\* json.dump([item.to_dict() for item in self.items])
DumpItems(its) == [i \in 1..Len(its) |-> to_dict(its[i])]

\* last_loaded_mtime: None or a float
None == [some |-> FALSE, v |-> 0]
Some(m) == [some |-> TRUE, v |-> m]


(***************************************************************************)
(* What the interface shows.                                               *)
(***************************************************************************)
\* status_var: the message kind, and the number, path and text it carries
Status(k, n, p, t) == [k |-> k, n |-> n, path |-> p, text |-> t]

\* what the last callback did: the callback, whether an exception was raised
\* in it ("swallowed" by its own except, or "escaped" out of it), the title of
\* the messagebox it showed, whether it called the chat API and with what
\* result, and the text of the exception the API raised
Ev(op, exc, notice) == [op |-> op, exc |-> exc, notice |-> notice, api |-> "none", msg |-> T0]

\* History of the last completed save: the path it wrote, while no other
\* program has touched that file since ("" otherwise), and whether
\* last_loaded_mtime is still the one that save recorded (no load since).
NoSave == [path |-> "", intact |-> FALSE]
\* the file at p is written or removed by something other than a completed save
Touched(p) == IF saved.path = p THEN NoSave ELSE saved
\* a load completed, with the file at p removed meanwhile or not
AfterLoad(p, gone) ==
  IF saved.path = "" \/ (gone /\ saved.path = p) THEN NoSave
  ELSE [saved EXCEPT !.intact = FALSE]

\* _redraw_canvas: one marker and one label per item, in collection order
DrawCanvas(its) ==
  [i \in 1..Len(its) |->
     [cx |-> FMul(its[i].x, CANVAS_WIDTH), cy |-> FMul(its[i].y, CANVAS_HEIGHT),
      label |-> <<its[i].name, its[i].color>>]]

\* datetime.now().isoformat()
NowText == <<"T">> \o NatText(now)

(***************************************************************************)
(* The initial state: DeskApp.__init__ up to and including _build_ui.      *)
(***************************************************************************)
Init ==
  /\ pc = "load_initial"
  /\ timer = FALSE
  /\ client \in BOOLEAN
  /\ path_var = DATA_PATH
  /\ fs = [p \in Paths |-> Missing]
  /\ now = 1
  /\ items = << >>
  /\ last_loaded_mtime = None
  /\ status_var = Status("Click canvas", 0, "", T0)
  /\ canvas = << >>
  /\ time_var = <<"T", "1">>
  /\ name_var = T0
  /\ x_var = T0
  /\ y_var = T0
  /\ color_var = T0
  /\ user_question = T0
  /\ response_box = <<[who |-> "greeting", text |-> T0]>>
  /\ ev = Ev("init", "none", "")
  /\ saved = NoSave

Form == <<time_var, name_var, x_var, y_var, color_var>>
Chat == <<user_question, response_box>>

(***************************************************************************)
(* _load_from_path                                                         *)
(***************************************************************************)
LoadOutcome(f) ==
  IF ~f.exists THEN "missing"
  ELSE IF JsonLoadRaises(f.doc) THEN "unparsable"
  ELSE IF ComprehensionRaises(f.doc) THEN "raised"
  ELSE "loaded"

\* The body of _load_from_path run by callback op.  guarded: the call sits in
\* a try whose except swallows what it raises (the poll's).
LoadFromPath(op, p, show_errors, guarded) ==
  LET f == fs[p]
      o == LoadOutcome(f)
  IN  \/ /\ o = "missing"
         /\ ev' = Ev(op, "none", IF show_errors THEN "File missing" ELSE "")
         /\ UNCHANGED <<fs, items, last_loaded_mtime, status_var, canvas, saved>>
      \/ /\ o = "unparsable"
         /\ ev' = Ev(op, "none", IF show_errors THEN "Load failed" ELSE "")
         /\ UNCHANGED <<fs, items, last_loaded_mtime, status_var, canvas, saved>>
      \/ /\ o = "raised"
         /\ ev' = Ev(op, IF guarded THEN "swallowed" ELSE "escaped", "")
         /\ UNCHANGED <<fs, items, last_loaded_mtime, status_var, canvas, saved>>
      \/ /\ o = "loaded"
         /\ items' = LoadedItems(f.doc)
         \* path.stat() raises OSError when the file was removed meanwhile
         /\ \E gone \in BOOLEAN :
              /\ fs' = IF gone THEN [fs EXCEPT ![p] = Missing] ELSE fs
              /\ last_loaded_mtime' = IF gone THEN None ELSE Some(f.mtime)
              /\ saved' = AfterLoad(p, gone)
         /\ canvas' = DrawCanvas(items')
         /\ status_var' = Status("Loaded", Len(items'), p, T0)
         /\ ev' = Ev(op, "none", "")

(***************************************************************************)
(* Startup: _load_initial_items, then _start_file_watch.                   *)
(***************************************************************************)
LoadInitialItems ==
  /\ pc = "load_initial"
  /\ IF fs[DATA_PATH].exists
     THEN /\ path_var' = DATA_PATH
          /\ LoadFromPath("load_initial", DATA_PATH, TRUE, FALSE)
          \* an exception leaves __init__ and main(): the process ends
          /\ pc' = IF ev'.exc = "escaped" THEN "crashed" ELSE "start_watch"
     ELSE /\ items' = << >>
          /\ canvas' = DrawCanvas(items')
          /\ ev' = Ev("load_initial", "none", "")
          /\ pc' = "start_watch"
          /\ UNCHANGED <<path_var, fs, last_loaded_mtime, status_var, saved>>
  /\ UNCHANGED <<timer, client, now, Form, Chat>>

StartFileWatch ==
  /\ pc = "start_watch"
  /\ pc' = "mainloop"
  /\ timer' = TRUE
  /\ ev' = Ev("start_watch", "none", "")
  /\ UNCHANGED <<saved, client, path_var, fs, now, items, last_loaded_mtime, status_var,
                 canvas, Form, Chat>>

(***************************************************************************)
(* The path field, "Choose file" and "Reload now".                         *)
(***************************************************************************)
\* the user edits the path entry
TypePath(p) ==
  /\ pc = "mainloop"
  /\ p # path_var
  /\ path_var' = p
  /\ ev' = Ev("type", "none", "")
  /\ UNCHANGED <<saved, pc, timer, client, fs, now, items, last_loaded_mtime, status_var,
                 canvas, Form, Chat>>

\* _choose_file with the dialog answering p
ChooseFile(p) ==
  /\ pc = "mainloop"
  /\ path_var' = p
  /\ LoadFromPath("choose", p, TRUE, FALSE)
  /\ UNCHANGED <<pc, timer, client, now, Form, Chat>>

\* the dialog is cancelled
ChooseFileCancel ==
  /\ pc = "mainloop"
  /\ ev' = Ev("choose", "none", "")
  /\ UNCHANGED <<saved, pc, timer, client, path_var, fs, now, items, last_loaded_mtime,
                 status_var, canvas, Form, Chat>>

ReloadNow ==
  /\ pc = "mainloop"
  /\ LoadFromPath("reload", path_var, TRUE, FALSE)
  /\ UNCHANGED <<pc, timer, client, path_var, now, Form, Chat>>

(***************************************************************************)
(* _poll_file_change                                                       *)
(***************************************************************************)
\* variant: ">=" for ">"
PollWantsReloadGeq(f, last) == f.exists /\ (~last.some \/ f.mtime >= last.v)

\* the poll's test for reloading
PollWantsReload(f, last) == f.exists /\ (~last.some \/ f.mtime > last.v)

\* variant: self.after(...) as the last statement inside the try
AfterPollInsideTry(exc) == exc = "none"

\* whether the poll has scheduled the next one when it returns, exc being what
\* was raised inside its try: self.after(...) is the statement after the try
AfterPoll(exc) == TRUE

PollFileChange ==
  /\ pc = "mainloop"
  /\ timer
  /\ IF PollWantsReload(fs[path_var], last_loaded_mtime)
     THEN LoadFromPath("poll", path_var, FALSE, TRUE)
     ELSE /\ ev' = Ev("poll", "none", "")
          /\ UNCHANGED <<fs, items, last_loaded_mtime, status_var, canvas, saved>>
  /\ timer' = AfterPoll(ev'.exc)
  /\ UNCHANGED <<pc, client, path_var, now, Form, Chat>>


(***************************************************************************)
(* _save_items                                                             *)
(***************************************************************************)
\* what path.open("w") and json.dump leave in the file when the write stops
\* after n of the elements (disk full, I/O error): the file was truncated on
\* open and is written in place
InterruptedDump(its, n) == TruncatedDoc(DumpItems(its), n)

\* variant: the save leaves last_loaded_mtime unset
SavedBaselineUnset(m) == None

\* the baseline _save_items records after writing a file with mtime m
SavedBaseline(m) == Some(m)

SaveItems ==
  /\ pc = "mainloop"
  /\ \/ \* mkdir or open raises (permission denied): nothing is written
        /\ ev' = Ev("save", "escaped", "")
        /\ UNCHANGED <<fs, last_loaded_mtime, status_var, saved>>
     \/ \* the dump raises after n elements
        /\ \E n \in 0..Len(DumpItems(items)) :
             fs' = [fs EXCEPT ![path_var] = File(InterruptedDump(items, n), now)]
        /\ ev' = Ev("save", "escaped", "")
        /\ saved' = Touched(path_var)
        /\ UNCHANGED <<last_loaded_mtime, status_var>>
     \/ \* the whole array is written
        /\ \E gone \in BOOLEAN :
             /\ fs' = [fs EXCEPT ![path_var] =
                         IF gone THEN Missing ELSE File(ArrayDoc(DumpItems(items)), now)]
             /\ last_loaded_mtime' = IF gone THEN None ELSE SavedBaseline(now)
             /\ saved' = IF gone THEN NoSave ELSE [path |-> path_var, intact |-> TRUE]
        /\ status_var' = Status("Saved", 0, path_var, T0)
        /\ ev' = Ev("save", "none", "")
  /\ UNCHANGED <<pc, timer, client, path_var, now, items, canvas, Form, Chat>>

(***************************************************************************)
(* The add-item form and the canvas.                                       *)
(***************************************************************************)
\* the user fills in the five entries
TypeForm(t, n, x, y, c) ==
  /\ pc = "mainloop"
  /\ time_var' = t
  /\ name_var' = n
  /\ x_var' = x
  /\ y_var' = y
  /\ color_var' = c
  /\ ev' = Ev("type", "none", "")
  /\ UNCHANGED <<saved, pc, timer, client, path_var, fs, now, items, last_loaded_mtime,
                 status_var, canvas, Chat>>

\* _handle_canvas_click at pixel (px, py)
HandleCanvasClick(px, py) ==
  /\ pc = "mainloop"
  /\ x_var' = FloatText(RoundNorm(px, CANVAS_WIDTH))
  /\ y_var' = FloatText(RoundNorm(py, CANVAS_HEIGHT))
  /\ status_var' = Status("Selected", 0, "", x_var' \o <<",">> \o y_var')
  /\ ev' = Ev("click", "none", "")
  /\ UNCHANGED <<saved, pc, timer, client, path_var, fs, now, items, last_loaded_mtime,
                 canvas, time_var, name_var, color_var, Chat>>

\* variant: "<" for "<="
InRangeStrict(x, y) ==
  /\ FLeq(F(0), x) /\ x # F(0) /\ FLeq(x, F(1000)) /\ x # F(1000)
  /\ FLeq(F(0), y) /\ y # F(0) /\ FLeq(y, F(1000)) /\ y # F(1000)

\* the range test of _add_item
InRange(x, y) == FLeq(F(0), x) /\ FLeq(x, F(1000)) /\ FLeq(F(0), y) /\ FLeq(y, F(1000))

\* the DeskItem _add_item builds from the entries
EnteredItem ==
  [timestamp |-> JStr(IF Strip(time_var) # T0 THEN Strip(time_var) ELSE NowText),
   name |-> JStr(Strip(name_var)),
   x |-> ParseFloat(x_var).val,
   y |-> ParseFloat(y_var).val,
   color |-> JStr(Strip(color_var))]

\* which messagebox _add_item shows, "" when it accepts
AddVerdict ==
  IF ~ParseFloat(x_var).ok \/ ~ParseFloat(y_var).ok THEN "Format error"
  ELSE IF EnteredItem.name.s = T0 THEN "Missing name"
  ELSE IF ~InRange(EnteredItem.x, EnteredItem.y) THEN "Coordinate error"
  ELSE ""

AddItem ==
  /\ pc = "mainloop"
  /\ Len(items) < MaxItems
  /\ ev' = Ev("add", "none", AddVerdict)
  /\ IF AddVerdict = ""
     THEN /\ items' = Append(items, EnteredItem)
          /\ canvas' = DrawCanvas(items')
          /\ status_var' = Status("Added", 0, "", EnteredItem.name.s)
          /\ name_var' = T0
          /\ color_var' = T0
     ELSE UNCHANGED <<items, canvas, status_var, name_var, color_var>>
  /\ UNCHANGED <<saved, pc, timer, client, path_var, fs, now, last_loaded_mtime,
                 time_var, x_var, y_var, Chat>>


(***************************************************************************)
(* The assistant bridge.  An error message of the chat API is a sequence   *)
(* of pieces of text; a substring is a run of adjacent pieces.             *)
(***************************************************************************)
QuotaText == <<"API quota exceeded or unavailable. Check billing or use another API key.">>
AuthText == <<"API key invalid or missing. Check apu_key.txt or OPENAI_API_KEY.">>
CannedNoItems == <<"I don't see any items yet.">>

\* str.lower() of one piece
LowerPiece(t) ==
  IF t = "Quota" THEN "quota" ELSE t

Lower(msg) == [i \in 1..Len(msg) |-> LowerPiece(msg[i])]

\* pat in msg
Contains(msg, pat) ==
  \E i \in 0..(Len(msg) - Len(pat)) : SubSeq(msg, i + 1, i + Len(pat)) = pat

\* variant: the two tests in the other order
FriendlyErrorAuthFirst(msg) ==
  LET lower == Lower(msg)
  IN  IF Contains(lower, <<"401">>) \/ Contains(lower, <<"invalid_api_key">>)
      THEN AuthText
      ELSE IF Contains(lower, <<"insufficient_", "quota">>) \/ Contains(lower, <<"quota">>)
           THEN QuotaText
           ELSE msg

\* _friendly_error
FriendlyError(msg) ==
  LET lower == Lower(msg)
  IN  IF Contains(lower, <<"insufficient_", "quota">>) \/ Contains(lower, <<"quota">>)
      THEN QuotaText
      ELSE IF Contains(lower, <<"401">>) \/ Contains(lower, <<"invalid_api_key">>)
           THEN AuthText
           ELSE msg

\* the user edits the question box
TypeQuestion(q) ==
  /\ pc = "mainloop"
  /\ user_question' = q
  /\ ev' = Ev("type", "none", "")
  /\ UNCHANGED <<saved, pc, timer, client, path_var, fs, now, items, last_loaded_mtime,
                 status_var, canvas, Form, response_box>>

Said(who, text) == [who |-> who, text |-> text]

\* variant: no test for an empty collection
ReachesApiAlways(its) == TRUE

\* whether _send_question goes on to the chat API
ReachesApi(its) == its # << >>

\* _send_question; replies and errors are the outcomes the chat API may have
\* (a reply of None is a completion without text)
SendQuestion(replies, errors) ==
  /\ pc = "mainloop"
  /\ Len(response_box) + 2 <= 1 + 2 * MaxChat
  /\ LET question == Strip(user_question)
     IN  IF ~client
         THEN /\ ev' = Ev("send", "none", "OpenAI disabled")
              /\ UNCHANGED <<user_question, response_box, status_var>>
         ELSE IF question = T0
         THEN /\ status_var' = Status("Enter a question first.", 0, "", T0)
              /\ ev' = Ev("send", "none", "")
              /\ UNCHANGED <<user_question, response_box>>
         ELSE /\ user_question' = T0
              /\ IF ~ReachesApi(items)
                 THEN /\ response_box' = response_box \o
                           <<Said("You", question), Said("Assistant", CannedNoItems)>>
                      /\ ev' = Ev("send", "none", "")
                      /\ UNCHANGED status_var
                 ELSE \/ \E msg \in errors :
                           /\ response_box' = response_box \o
                                <<Said("You", question), Said("Assistant (error)", FriendlyError(msg))>>
                           /\ status_var' = Status("OpenAI call failed", 0, "", T0)
                           /\ ev' = [Ev("send", "none", "") EXCEPT !.api = "raised", !.msg = msg]
                      \/ \E content \in replies :
                           /\ response_box' = response_box \o
                                <<Said("You", question), Said("Assistant", Strip(content))>>
                           /\ status_var' = Status("Response received.", 0, "", T0)
                           /\ ev' = [Ev("send", "none", "") EXCEPT !.api = "returned"]
                      \/ \* content is None: None.strip() raises AttributeError
                         /\ response_box' = response_box \o <<Said("You", question)>>
                         /\ ev' = [Ev("send", "escaped", "") EXCEPT !.api = "returned"]
                         /\ UNCHANGED status_var
  /\ UNCHANGED <<saved, pc, timer, client, path_var, fs, now, items, last_loaded_mtime,
                 canvas, Form>>

(***************************************************************************)
(* The environment: other writers of the files, and the clock.             *)
(***************************************************************************)
ExternalWrite(p, doc) ==
  /\ fs' = [fs EXCEPT ![p] = File(doc, now)]
  /\ fs' # fs
  /\ saved' = Touched(p)
  /\ ev' = Ev("env", "none", "")
  /\ UNCHANGED <<pc, timer, client, path_var, now, items, last_loaded_mtime,
                 status_var, canvas, Form, Chat>>

ExternalDelete(p) ==
  /\ fs[p].exists
  /\ fs' = [fs EXCEPT ![p] = Missing]
  /\ saved' = Touched(p)
  /\ ev' = Ev("env", "none", "")
  /\ UNCHANGED <<pc, timer, client, path_var, now, items, last_loaded_mtime,
                 status_var, canvas, Form, Chat>>

Tick ==
  /\ now < MaxClock
  /\ now' = now + 1
  /\ ev' = Ev("env", "none", "")
  /\ UNCHANGED <<saved, pc, timer, client, path_var, fs, items, last_loaded_mtime,
                 status_var, canvas, Form, Chat>>

(***************************************************************************)
(* Inputs.                                                                 *)
(***************************************************************************)
Pen == Dict(JStr(<<"t">>), JStr(<<"p">>), JNum(F(500)), JNum(F(500)), JStr(<<"b">>))
\* keys missing, a null name, x written as a string, y out of range
Sparse == Dict(Absent, JNull, JStr(<<"0", ".", "2", "5">>), JNum(F(1500)), Absent)
BadX == Dict(JStr(<<"t">>), JStr(<<"p">>), JStr(<<"a">>), JNum(F(0)), JStr(T0))
NanX == Dict(JStr(<<"t">>), JNum(F(7000)), JNum(NaN), JNum(F(0)), JStr(T0))

RECURSIVE SeqsUpTo(_, _)
\* the sequences over S of length at most n
SeqsUpTo(S, n) ==
  IF n = 0 THEN {<< >>}
  ELSE LET shorter == SeqsUpTo(S, n - 1)
       IN  shorter \cup {Append(s, e) : s \in shorter, e \in S}

\* what another program may leave in a file
CoreDocs ==
  {ArrayDoc(<<Pen>>), ArrayDoc(<<Sparse>>), ArrayDoc(<<BadX>>), ObjectDoc(1), ScalarDoc,
   MalformedDoc}

A_017 == <<"0", ".", "1", "7">>
\* what the user may type into the five entries: time, name, x, y, colour
FormInputs ==
  { <<T0, <<"p">>, <<"0">>, A_017, T0>>,                          \* x on the lower edge, no time
    <<<<"t">>, <<" ", "p", " ">>, <<"1">>, A_017, <<"r", " ">>>>,  \* x on the upper edge
    <<<<"t">>, <<"p">>, <<" ", "0", ".", "4", "2">>, <<"1", ".", "0">>, T0>>,
    <<<<"t">>, T0, <<"0">>, A_017, T0>>,                          \* no name
    <<<<"t">>, <<" ">>, <<"0">>, A_017, T0>>,                     \* a blank name
    <<<<"t">>, <<"p">>, T0, A_017, T0>>,                          \* no x
    <<<<"t">>, <<"p">>, <<"a">>, A_017, T0>>,                     \* x is no number
    <<<<"t">>, <<"p">>, <<"0">>, <<"x">>, T0>>,                   \* y is no number
    <<<<"t">>, T0, <<"a">>, A_017, T0>>,                          \* no name and no number
    <<<<"t">>, <<"p">>, <<"n", "a", "n">>, A_017, T0>>,           \* x is nan
    <<<<"t">>, <<"p">>, <<"1", ".", "5">>, A_017, T0>>,           \* x = 1.5
    <<<<"t">>, <<"p">>, <<"-", "0", ".", "1">>, A_017, T0>>,      \* x = -0.1
    <<<<"t">>, <<"p">>, <<"1", ".", "0", "0", "1">>, A_017, T0>>, \* x just above 1
    <<<<"t">>, <<"p">>, <<"0">>, <<"2">>, T0>>,                   \* y = 2
    <<<<"t">>, T0, <<"1", ".", "5">>, A_017, T0>> }               \* no name, x = 1.5

Pixels == {<<378, 94>>, <<900, 0>>}
Questions == {T0, <<" ">>, <<"q", " ">>}
Replies == {<<" ", "o", "k">>}
Pieces == {"insufficient_", "quota", "Quota", "401", "invalid_api_key", "timeout"}
Messages == SeqsUpTo(Pieces, MaxMsgLen)
CoreMessages == {<<"timeout">>, <<"insufficient_", "quota">>}

(***************************************************************************)
(* The item store: startup, the path field, load, save and poll, with      *)
(* other programs writing the files.                                       *)
(***************************************************************************)
NextStore ==
  \/ LoadInitialItems
  \/ StartFileWatch
  \/ \E p \in Paths : TypePath(p)
  \/ \E p \in Paths : ChooseFile(p)
  \/ ChooseFileCancel
  \/ ReloadNow
  \/ PollFileChange
  \/ SaveItems
  \/ \E p \in Paths, doc \in CoreDocs : ExternalWrite(p, doc)
  \/ \E p \in Paths : ExternalDelete(p)
  \/ Tick

InitStore == Init /\ client = TRUE

Spec == InitStore /\ [][NextStore]_vars


LoadOps == {"load_initial", "reload", "choose", "poll"}

\* the step is a poll that reloaded: it replaced the collection, the baseline
\* or the status line, or from_dict raised in it
PollReloaded ==
  /\ ev'.op = "poll"
  /\ \/ items' # items
     \/ last_loaded_mtime' # last_loaded_mtime
     \/ status_var' # status_var
     \/ ev'.exc # "none"

PollChangedNothing ==
  /\ items' = items
  /\ last_loaded_mtime' = last_loaded_mtime
  /\ status_var' = status_var
  /\ ev'.exc = "none"

(***************************************************************************)
(* C1 as stated: a poll against the path of a completed save, the file     *)
(* untouched since that save, reloads nothing.                             *)
(***************************************************************************)
C1_PollAfterSave ==
  [][(saved.path = path_var /\ ev'.op = "poll") => PollChangedNothing]_vars

(***************************************************************************)
(* C1 amended: a poll against the path of a completed save, the file       *)
(* untouched since that save and no load completed since, finds            *)
(* last_loaded_mtime equal to the file's mtime and reloads nothing.        *)
(***************************************************************************)
C1_PollAfterSaveNoLoadBetween ==
  [][(saved.path = path_var /\ saved.intact /\ ev'.op = "poll")
       => /\ last_loaded_mtime = Some(fs[path_var].mtime)
          /\ PollChangedNothing]_vars

\* a poll has run right after such a save
C1_Witness ==
  /\ ev.op = "poll"
  /\ saved.path = path_var /\ saved.intact
  /\ status_var.k = "Saved"
  /\ items # << >>

(***************************************************************************)
(* C5: no failed load lets an exception out of the callback that asked for *)
(* it, and none ends the process.                                          *)
(***************************************************************************)
C5_LoadFailuresAreCaught ==
  /\ ev.op \in LoadOps => ev.exc # "escaped"
  /\ pc # "crashed"

(***************************************************************************)
(* C6 as stated: a poll reloads only if the file exists and its mtime is   *)
(* strictly later than the recorded one; with the file missing it raises   *)
(* nothing and changes nothing.                                            *)
(***************************************************************************)
C6_PollReloadsOnlyIfLater ==
  [][/\ PollReloaded =>
          /\ fs[path_var].exists
          /\ last_loaded_mtime.some
          /\ fs[path_var].mtime > last_loaded_mtime.v
     /\ (ev'.op = "poll" /\ ~fs[path_var].exists) => PollChangedNothing]_vars

(***************************************************************************)
(* C6 amended: a poll reloads only if the file exists and either no mtime  *)
(* is recorded (last_loaded_mtime is None) or the file's mtime is strictly *)
(* later than the recorded one; with the file missing it raises nothing    *)
(* and changes nothing.                                                    *)
(***************************************************************************)
C6_PollReloadsOnlyIfLaterOrUnset ==
  [][/\ PollReloaded =>
          /\ fs[path_var].exists
          /\ \/ ~last_loaded_mtime.some
             \/ fs[path_var].mtime > last_loaded_mtime.v
     /\ (ev'.op = "poll" /\ ~fs[path_var].exists) => PollChangedNothing]_vars

\* a poll has reloaded a file
C6_Witness ==
  /\ ev.op = "poll"
  /\ status_var.k = "Loaded"
  /\ last_loaded_mtime = Some(fs[path_var].mtime)
  /\ items # << >>

(***************************************************************************)
(* C7 as stated: after a save attempt the file never holds an empty or     *)
(* cut-off prefix of the array.                                            *)
(***************************************************************************)
C7_SaveNeverPartial ==
  (ev.op = "save" /\ fs[path_var].exists) =>
     /\ fs[path_var].doc = ArrayDoc(DumpItems(items)) \/ ev.exc = "escaped"
     /\ fs[path_var].doc.k # "truncated"

(***************************************************************************)
(* C7 amended: after a save that completed without an error the file, if   *)
(* no other program removed it, holds the complete array of the collection *)
(* in collection order; a file left cut off by a save comes with the       *)
(* write error of that save.                                               *)
(***************************************************************************)
C7_CompletedSaveIsWhole ==
  /\ (ev.op = "save" /\ ev.exc = "none" /\ fs[path_var].exists) =>
        /\ fs[path_var].doc = ArrayDoc([i \in 1..Len(items) |-> to_dict(items[i])])
        /\ last_loaded_mtime = Some(fs[path_var].mtime)
  /\ (ev.op = "save" /\ fs[path_var].exists /\ fs[path_var].doc.k = "truncated") =>
        ev.exc = "escaped"

\* a save of a non-empty collection has completed
C7_Witness ==
  /\ ev.op = "save" /\ ev.exc = "none"
  /\ fs[path_var].exists
  /\ items # << >>


(***************************************************************************)
(* The add-item form: the user types into the entries, clicks the canvas   *)
(* and presses "Add item".                                                 *)
(***************************************************************************)
NextForm ==
  \/ LoadInitialItems
  \/ StartFileWatch
  \/ \E f \in FormInputs : TypeForm(f[1], f[2], f[3], f[4], f[5])
  \/ \E px \in Pixels : HandleCanvasClick(px[1], px[2])
  \/ AddItem

FormSpec == InitStore /\ [][NextForm]_vars

\* x or y is no number, or is not in [0, 1]
BadCoordinate(text) ==
  \/ ~ParseFloat(text).ok
  \/ ParseFloat(text).val.k # "fin"
  \/ ParseFloat(text).val.v < 0
  \/ ParseFloat(text).val.v > 1000

(***************************************************************************)
(* C2: _add_item leaves the collection as it was when the name is empty    *)
(* after trimming or x or y is no number or lies outside [0, 1]; on every  *)
(* other input it appends exactly one item with the entered values.        *)
(***************************************************************************)
C2_AddIsAtomic ==
  [][ev'.op = "add" =>
       IF Strip(name_var) = T0 \/ BadCoordinate(x_var) \/ BadCoordinate(y_var)
       THEN items' = items
       ELSE /\ Len(items') = Len(items) + 1
            /\ SubSeq(items', 1, Len(items)) = items
            /\ items'[Len(items')] =
                 [timestamp |-> JStr(IF Strip(time_var) = T0 THEN NowText ELSE Strip(time_var)),
                  name |-> JStr(Strip(name_var)),
                  x |-> ParseFloat(x_var).val,
                  y |-> ParseFloat(y_var).val,
                  color |-> JStr(Strip(color_var))]]_vars

\* an add was refused after another was accepted with x on the upper edge
C2_Witness ==
  /\ ev.op = "add" /\ ev.notice = "Coordinate error"
  /\ Len(items) = 1
  /\ items[1].x = F(1000)

(***************************************************************************)
(* Editing and saving: items come from the form, are saved, and are read   *)
(* back; another program may leave an item with a NaN coordinate.          *)
(***************************************************************************)
NextEdit ==
  \/ LoadInitialItems
  \/ StartFileWatch
  \/ \E f \in {g \in FormInputs : g[2] # T0 /\ g[3] \in {<<"0">>, <<"1">>} /\ g[4] = A_017} :
       TypeForm(f[1], f[2], f[3], f[4], f[5])
  \/ AddItem
  \/ SaveItems
  \/ ReloadNow
  \/ PollFileChange
  \/ ExternalWrite(DATA_PATH, ArrayDoc(<<NanX>>))

EditSpec == InitStore /\ [][NextEdit]_vars

\* a collection as _add_item builds them
WellFormed(its) ==
  \A i \in 1..Len(its) :
    /\ its[i].timestamp.t = "str" /\ its[i].timestamp.s # T0
    /\ its[i].name.t = "str" /\ its[i].name.s # T0
    /\ its[i].color.t = "str"
    /\ InRange(its[i].x, its[i].y)

(***************************************************************************)
(* C3: "Reload now" right after a completed save of a well-formed          *)
(* collection to the same path loads a collection equal to the saved one:  *)
(* same length, same order, every field of every item equal.               *)
(***************************************************************************)
C3_RoundTrip ==
  [][(/\ ev.op = "save" /\ ev.exc = "none" /\ fs[path_var].exists
      /\ WellFormed(items)
      /\ ev'.op = "reload")
       => /\ ev'.exc = "none" /\ ev'.notice = ""
          /\ status_var'.k = "Loaded"
          /\ ItemsEq(items', items)]_vars

\* two different items were saved and read back
C3_Witness ==
  /\ ev.op = "reload" /\ status_var.k = "Loaded"
  /\ Len(items) = 2 /\ items[1] # items[2]
  /\ WellFormed(items)
  /\ saved.path = path_var
  /\ fs[path_var].doc = ArrayDoc(DumpItems(items))

(***************************************************************************)
(* The assistant: the user adds items, types questions and sends them.     *)
(***************************************************************************)
FillValid == TypeForm(T0, <<"p">>, <<"0", ".", "5">>, <<"0", ".", "5">>, T0)

NextChat ==
  \/ LoadInitialItems
  \/ StartFileWatch
  \/ FillValid
  \/ AddItem
  \/ \E q \in Questions : TypeQuestion(q)
  \/ SendQuestion(Replies, CoreMessages)

ChatSpec == Init /\ [][NextChat]_vars

(***************************************************************************)
(* C4: a send while the collection is empty never calls the chat API; with *)
(* the assistant enabled and a non-empty question it appends the question  *)
(* and the canned "no items" reply to the transcript.                      *)
(***************************************************************************)
C4_EmptyShortCircuit ==
  [][(ev'.op = "send" /\ items = << >>)
       => /\ ev'.api = "none"
          /\ (client /\ Strip(user_question) # T0) =>
                response_box' = response_box \o
                  <<Said("You", Strip(user_question)), Said("Assistant", CannedNoItems)>>]_vars

\* the canned reply was given
C4_Witness ==
  /\ ev.op = "send" /\ items = << >>
  /\ response_box[Len(response_box)] = Said("Assistant", CannedNoItems)

\* one question is sent and the chat API fails with any message
NextClassify ==
  \/ LoadInitialItems
  \/ StartFileWatch
  \/ FillValid
  \/ AddItem
  \/ TypeQuestion(<<"q">>)
  \/ Len(response_box) = 1 /\ SendQuestion(Replies, Messages)

ClassifySpec == InitStore /\ [][NextClassify]_vars

\* what the transcript shows for the failure
Shown == response_box[Len(response_box)].text

(***************************************************************************)
(* C8 as stated: a message containing "insufficient_quota" is shown as     *)
(* quota exceeded, one containing "401" as an authentication failure, and  *)
(* every other message verbatim.                                           *)
(***************************************************************************)
C8_Classification ==
  ev.api = "raised" =>
    /\ Contains(ev.msg, <<"insufficient_", "quota">>) => Shown = QuotaText
    /\ Contains(ev.msg, <<"401">>) => Shown = AuthText
    /\ (~Contains(ev.msg, <<"insufficient_", "quota">>) /\ ~Contains(ev.msg, <<"401">>))
         => Shown = ev.msg

(***************************************************************************)
(* C8 amended: a message whose lower-cased text contains "quota" (so also  *)
(* "insufficient_quota") is shown as quota exceeded, whether or not it     *)
(* contains "401" too; any other message whose lower-cased text contains   *)
(* "401" or "invalid_api_key" is shown as an authentication failure; every *)
(* other message is shown verbatim.                                        *)
(***************************************************************************)
C8_ClassificationQuotaFirst ==
  ev.api = "raised" =>
    LET hasQuota == \E i \in 1..Len(ev.msg) : ev.msg[i] \in {"quota", "Quota"}
        hasAuth == \E i \in 1..Len(ev.msg) : ev.msg[i] \in {"401", "invalid_api_key"}
    IN  /\ hasQuota => Shown = QuotaText
        /\ (~hasQuota /\ hasAuth) => Shown = AuthText
        /\ (~hasQuota /\ ~hasAuth) => Shown = ev.msg

\* a failure naming both "insufficient_quota" and "401" was classified
C8_Witness ==
  /\ ev.api = "raised"
  /\ Contains(ev.msg, <<"insufficient_", "quota">>) /\ Contains(ev.msg, <<"401">>)
  /\ Shown = QuotaText


(***************************************************************************)
(* The whole application: every callback, one input of each kind, and one  *)
(* other program writing the data file.                                    *)
(***************************************************************************)
NextApp ==
  \/ LoadInitialItems
  \/ StartFileWatch
  \/ ChooseFile(DATA_PATH)
  \/ ChooseFileCancel
  \/ ReloadNow
  \/ PollFileChange
  \/ SaveItems
  \/ TypeForm(<<"t">>, <<" ", "p", " ">>, <<"1">>, <<"0", ".", "2">>, <<"r", " ">>)
  \/ HandleCanvasClick(900, 110)
  \/ AddItem
  \/ TypeQuestion(<<"q">>)
  \/ SendQuestion(Replies, {<<"timeout">>})
  \/ \E doc \in {ArrayDoc(<<Pen>>), ArrayDoc(<<BadX>>)} : ExternalWrite(DATA_PATH, doc)

AppSpec == InitStore /\ [][NextApp]_vars

\* the poll's file is there and newer than the baseline, or there is no baseline
FoundNewer ==
  /\ fs[path_var].exists
  /\ ~last_loaded_mtime.some \/ fs[path_var].mtime > last_loaded_mtime.v

(***************************************************************************)
(* C10: the collection changes only by an accepted add, which appends one  *)
(* item and keeps the earlier ones in order, or by a completed load, which *)
(* replaces it with the file's items; a refused add, a failed load, a      *)
(* save, a send, a canvas click and a poll that finds no newer file leave  *)
(* it as it was; and only a save writes a data file.                       *)
(***************************************************************************)
C10_Frame ==
  [][/\ items' # items =>
          \/ /\ ev'.op = "add" /\ ev'.notice = ""
             /\ Len(items') = Len(items) + 1
             /\ SubSeq(items', 1, Len(items)) = items
          \/ /\ ev'.op \in LoadOps /\ ev'.exc = "none" /\ ev'.notice = ""
             /\ status_var'.k = "Loaded"
             /\ items' = [i \in 1..Len(fs[path_var'].doc.elems) |->
                            from_dict(fs[path_var'].doc.elems[i])]
             /\ ev'.op = "poll" => FoundNewer
     /\ (ev'.op = "add" /\ ev'.notice # "") => items' = items
     /\ (ev'.op \in LoadOps /\ (ev'.exc # "none" \/ ev'.notice # "")) => items' = items
     /\ ev'.op \in {"save", "send", "click", "type", "start_watch"} => items' = items
     /\ (ev'.op = "poll" /\ ~FoundNewer) => items' = items
     /\ \A p \in Paths :
          (fs'[p] # fs[p] /\ fs'[p].exists) => ev'.op \in {"save", "env"}]_vars

\* an item was added to a loaded collection, and the whole was saved
C10_Witness ==
  /\ ev.op = "save" /\ ev.exc = "none"
  /\ Len(items) = 2
  /\ items[1] = from_dict(Pen)
  /\ items[2].x = F(1000)
  /\ response_box # <<[who |-> "greeting", text |-> T0]>>


(***************************************************************************)
(* The poll at work: another program rewrites the data file, the user      *)
(* retypes the path, reloads and saves.  The after() timer fires while the *)
(* main loop runs, so the poll is taken whenever it stays due.             *)
(***************************************************************************)
LiveDocs == {ArrayDoc(<<Pen>>), ArrayDoc(<<BadX>>), MalformedDoc}

NextLive ==
  \/ LoadInitialItems
  \/ StartFileWatch
  \/ \E p \in Paths : TypePath(p)
  \/ ReloadNow
  \/ PollFileChange
  \/ SaveItems
  \/ \E doc \in LiveDocs : ExternalWrite(DATA_PATH, doc)
  \/ ExternalDelete(DATA_PATH)
  \/ Tick

LiveSpec == InitStore /\ [][NextLive]_vars /\ WF_vars(PollFileChange)

\* the file at the current path is one a load accepts, and the poll's test
\* holds of it
Newer ==
  /\ pc = "mainloop"
  /\ LoadOutcome(fs[path_var]) = "loaded"
  /\ ~last_loaded_mtime.some \/ fs[path_var].mtime > last_loaded_mtime.v

\* the collection and the baseline are those of the file at the current path
Synced ==
  /\ fs[path_var].exists
  /\ items = [i \in 1..Len(fs[path_var].doc.elems) |-> from_dict(fs[path_var].doc.elems[i])]
  /\ last_loaded_mtime = Some(fs[path_var].mtime)

(***************************************************************************)
(* C9: while the main loop runs the poll timer is always pending, every    *)
(* poll leaving it so; and when the file at the current path is            *)
(* well-formed and its mtime is strictly later than last_loaded_mtime (or  *)
(* none is recorded), that does not last: it ends, and ends only with the  *)
(* collection holding the file's items and last_loaded_mtime its mtime, or *)
(* with the path or the file changed again.                                *)
(***************************************************************************)
C9_PollConverges ==
  /\ [](pc = "mainloop" => timer)
  /\ [][ev'.op = "poll" => timer']_vars
  /\ [][(Newer /\ ~Newer') =>
          \/ Synced' /\ path_var' = path_var /\ fs' = fs
          \/ path_var' # path_var
          \/ fs'[path_var] # fs[path_var]]_vars
  /\ Newer ~> (Synced \/ ~Newer)

\* the poll has brought in a file written after the last load
C9_Witness ==
  /\ ev.op = "poll" /\ timer
  /\ fs[path_var].mtime = MaxClock
  /\ Synced
  /\ items # << >>

====
